---- MODULE Spec2Model ----
(***************************************************************************)
(* sparsenamedtuple: a tuple subclass that stores only the non-None field  *)
(* values, followed by one trailing element holding the schema positions   *)
(* of those values.  The record operations (_make, __getitem__, _asdict,   *)
(* _asnamedtuple, __eq__, _replace) are modelled over the first NumFields  *)
(* fields of the doctest's Customer schema; the field-name validation of   *)
(* the factory function is modelled separately (SchemaSpec).               *)
(*                                                                         *)
(* Python values are encoded as integer sequences so that any two of them  *)
(* can be compared:  None = <<0>>,  an atomic value a = <<1, a>>,  a tuple *)
(* of ints (x, y) = <<2, x, y>>.  A record is its raw tuple storage, a     *)
(* sequence of encoded values whose last element is the positions tuple.   *)
(* Positions are 0-based as in the source.                                 *)
(***************************************************************************)
EXTENDS Integers, Sequences, FiniteSets, TLC

\* ---------------------------------------------------------------- bounds
NumFields == 2
MaxAtom   == 1
MaxArgs   == 2
MaxNames  == 3

\* ---------------------------------------------------------------- values
None == <<0>>
Atom(a) == <<1, a>>
Tuple(s) == <<2>> \o s

\* The values a caller may pass: None, atoms, and a one-element tuple that
\* can coincide with a positions group.
Values == {None} \cup {Atom(a) : a \in 1..MaxAtom} \cup {Tuple(<<0>>)}

\* ---------------------------------------------------------------- schema
FieldPool == <<"username", "first", "middle", "last", "city", "state", "zip", "bday">>
_fields == SubSeq(FieldPool, 1, NumFields)
_nfields == Len(_fields)
FieldNames == {_fields[i] : i \in 1.._nfields}
\* A name that is not a field of the schema.
Names == FieldNames \cup {"bogus"}

\* ---------------------------------------------------------------- helpers
\* tuple.index(x): 0-based position of the first element equal to x, or -1
\* where Python raises ValueError.
TupleIndex(t, x) ==
    IF \E i \in 1..Len(t) : t[i] = x
    THEN (CHOOSE i \in 1..Len(t) : t[i] = x /\ \A j \in 1..(i-1) : t[j] # x) - 1
    ELSE -1

\* tuple.__getitem__(t, i) for an in-range index i >= -1 (0-based; -1 is the
\* last element).
TupleGetItem(t, i) == IF i < 0 THEN t[Len(t) + 1 + i] ELSE t[i + 1]

\* The ints of an encoded tuple.
TupleItems(v) == Tail(v)

\* All orders in which a dict with key set S can be iterated.
RECURSIVE Orders(_)
Orders(S) ==
    IF S = {}
    THEN {<<>>}
    ELSE UNION {{<<k>> \o o : o \in Orders(S \ {k})} : k \in S}

\* ---------------------------------------------------------------- _make
\* The loop of _make with the index appended before the test for None.
RECURSIVE MakeLoopIndexFirst(_, _, _, _, _)
MakeLoopIndexFirst(kw, order, i, indexes, values) ==
    IF i > Len(order)
    THEN [exc |-> "", val |-> values \o <<Tuple(indexes)>>]
    ELSE LET key == order[i]
             value == kw[key]
         IN IF TupleIndex(_fields, key) < 0
            THEN [exc |-> "ValueError", val |-> <<>>]
            ELSE MakeLoopIndexFirst(kw, order, i + 1,
                                    indexes \o <<TupleIndex(_fields, key)>>,
                                    IF value # None THEN values \o <<value>> ELSE values)

\* The loop of _make over kwargs.iteritems(), iterating the keys in `order`.
RECURSIVE MakeLoop(_, _, _, _, _)
MakeLoop(kw, order, i, indexes, values) ==
    IF i > Len(order)
    THEN [exc |-> "", val |-> values \o <<Tuple(indexes)>>]
    ELSE LET key == order[i]
             value == kw[key]
         IN IF value # None
            THEN IF TupleIndex(_fields, key) < 0
                 THEN [exc |-> "ValueError", val |-> <<>>]
                 ELSE MakeLoop(kw, order, i + 1,
                               indexes \o <<TupleIndex(_fields, key)>>,
                               values \o <<value>>)
            ELSE MakeLoop(kw, order, i + 1, indexes, values)

\* _make with each index inserted at the front of indexes.
_makeIndexesReversed(kw, order) ==
    LET res == MakeLoop(kw, order, 1, <<>>, <<>>)
        n == Len(res.val)
        indexes == Tail(res.val[n])
    IN IF res.exc # ""
       THEN res
       ELSE [exc |-> "",
             val |-> SubSeq(res.val, 1, n - 1)
                     \o <<Tuple([j \in 1..Len(indexes) |-> indexes[Len(indexes) + 1 - j]])>>]

_make(kw, order) == MakeLoop(kw, order, 1, <<>>, <<>>)

\* ---------------------------------------------------------------- __getitem__
\* The lookup after the index checks: find n among the stored positions.
Lookup(self, n) ==
    LET pos == TupleIndex(TupleItems(TupleGetItem(self, -1)), n)
    IN IF pos < 0
       THEN [exc |-> "", val |-> None]
       ELSE [exc |-> "", val |-> TupleGetItem(self, pos)]

\* __getitem__ without the normalisation of a negative index.
__getitem__NoNormalise(self, n) ==
    IF n < 0
    THEN Lookup(self, n)
    ELSE IF n >= _nfields
         THEN [exc |-> "IndexError", val |-> None]
         ELSE Lookup(self, n)

__getitem__(self, n) ==
    IF n < 0
    THEN Lookup(self, _nfields + n)
    ELSE IF n >= _nfields
         THEN [exc |-> "IndexError", val |-> None]
         ELSE Lookup(self, n)

\* The property generated for a field: _itemgetter(index), which indexes the
\* record through __getitem__.
FieldProperty(self, name) == __getitem__(self, TupleIndex(_fields, name))

\* ---------------------------------------------------------------- views
\* _asdict reading the raw storage by index instead of going through
\* __getitem__.
_asdictRaw(self) ==
    [x \in 1.._nfields |->
        <<_fields[x], IF x < Len(self) THEN TupleGetItem(self, x - 1) ELSE None>>]

\* The OrderedDict of _asdict, as its sequence of (name, value) items.
_asdict(self) == [x \in 1.._nfields |-> <<_fields[x], __getitem__(self, x - 1).val>>]

_asnamedtuple(self) == [x \in 1.._nfields |-> __getitem__(self, x - 1).val]

\* tuple(record) giving the full sequence.
AsTupleDense(self) == _asnamedtuple(self)

\* tuple(record): the raw storage.
AsTuple(self) == self

\* ---------------------------------------------------------------- equality
\* tuple == tuple, element by element on the raw storage of both operands.
tuple_richcompare(v, w) == v = w

\* An operand of == is [kind, items]: kind "tuple" is a plain tuple or a
\* namedtuple, kind "sparse" is a sparsenamedtuple with raw storage items.
\* self._asnamedtuple() == other compares a plain tuple with other; when
\* other is a sparsenamedtuple, a subclass of tuple that defines __eq__, the
\* comparison is answered by other.__eq__ applied to the plain tuple.
\* __eq__ comparing the full sequence of self with the raw storage of other.
__eq__Raw(self, other) == tuple_richcompare(_asnamedtuple(self), other.items)

__eq__(self, other) ==
    IF other.kind = "sparse"
    THEN tuple_richcompare(_asnamedtuple(other.items), _asnamedtuple(self))
    ELSE tuple_richcompare(_asnamedtuple(self), other.items)

__ne__(self, other) == ~ __eq__(self, other)

\* ---------------------------------------------------------------- _replace
\* The plain dict that **vars passes on: the items of an OrderedDict od
\* updated with the dict kw.
\* An update that keeps the old value where the new one is None.
DictUpdateKeepNone(od, kw) ==
    [k \in {od[i][1] : i \in 1..Len(od)} \cup DOMAIN kw |->
        IF k \in DOMAIN kw /\ (kw[k] # None \/ \A i \in 1..Len(od) : od[i][1] # k)
        THEN kw[k]
        ELSE od[CHOOSE i \in 1..Len(od) : od[i][1] = k][2]]

DictUpdate(od, kw) ==
    [k \in {od[i][1] : i \in 1..Len(od)} \cup DOMAIN kw |->
        IF k \in DOMAIN kw
        THEN kw[k]
        ELSE od[CHOOSE i \in 1..Len(od) : od[i][1] = k][2]]

_replace(self, kw, order) == _make(DictUpdate(_asdict(self), kw), order)

\* ---------------------------------------------------------------- factory
\* Names are sequences of one-character strings.
Letters == {"x", "y", "i", "f", "T"}
Digits == {"0", "1", "2", "3", "4", "5", "6", "7", "8", "9"}
Keywords == {<<"i", "f">>}

isalnum(c) == c \in Letters \cup Digits
isdigit(c) == c \in Digits
_iskeyword(name) == name \in Keywords
startswith_(name) == Len(name) > 0 /\ name[1] = "_"
AllAlnumOrUnderscore(name) == \A j \in 1..Len(name) : isalnum(name[j]) \/ name[j] = "_"

\* '%d' % n for n >= 0
DigitChars == <<"0", "1", "2", "3", "4", "5", "6", "7", "8", "9">>
RECURSIVE FormatD(_)
FormatD(n) ==
    IF n < 10
    THEN <<DigitChars[n + 1]>>
    ELSE FormatD(n \div 10) \o <<DigitChars[(n % 10) + 1]>>

\* The rename loop; index is 0-based, seen holds the names as given.
RECURSIVE RenameLoop(_, _, _)
RenameLoop(field_names, index, seen) ==
    IF index >= Len(field_names)
    THEN field_names
    ELSE LET name == field_names[index + 1]
             bad == \/ ~ AllAlnumOrUnderscore(name)
                    \/ _iskeyword(name)
                    \/ name = <<>>
                    \/ isdigit(name[1])
                    \/ startswith_(name)
                    \/ name \in seen
             renamed == IF bad
                        THEN [field_names EXCEPT ![index + 1] = <<"_">> \o FormatD(index)]
                        ELSE field_names
         IN RenameLoop(renamed, index + 1, seen \cup {name})

\* The loop over [typename] + field_names; name[0] of an empty name raises
\* IndexError.
RECURSIVE CheckNames(_, _)
CheckNames(names, i) ==
    IF i > Len(names)
    THEN ""
    ELSE LET name == names[i]
         IN IF ~ AllAlnumOrUnderscore(name) THEN "ValueError"
            ELSE IF _iskeyword(name) THEN "ValueError"
            ELSE IF name = <<>> THEN "IndexError"
            ELSE IF isdigit(name[1]) THEN "ValueError"
            ELSE CheckNames(names, i + 1)

\* The loop over field_names for underscores and duplicates.
RECURSIVE CheckFields(_, _, _, _)
CheckFields(field_names, i, seen, rename) ==
    IF i > Len(field_names)
    THEN ""
    ELSE LET name == field_names[i]
         IN IF startswith_(name) /\ ~ rename THEN "ValueError"
            ELSE IF name \in seen THEN "ValueError"
            ELSE CheckFields(field_names, i + 1, seen \cup {name}, rename)

\* The factory function on a list of names: the exception it raises, or the
\* _fields of the class it returns.
sparsenamedtuple(typename, field_names0, rename) ==
    LET field_names == IF rename THEN RenameLoop(field_names0, 0, {}) ELSE field_names0
        e1 == CheckNames(<<typename>> \o field_names, 1)
        e2 == CheckFields(field_names, 1, {}, rename)
    IN IF e1 # "" THEN [exc |-> e1, fields |-> <<>>]
       ELSE IF e2 # "" THEN [exc |-> e2, fields |-> <<>>]
       ELSE [exc |-> "", fields |-> field_names]

\* The names a caller passes: valid names, the empty name, names with a
\* leading underscore, a leading digit or another character, and a keyword.
NamePool ==
    {<<>>, <<"x">>, <<"y">>, <<"_", "x">>, <<"_", "1">>, <<"1", "x">>, <<"x", "-">>,
     <<"i", "f">>}
TypeNames == {<<"T">>, <<"1", "T">>}
FieldNameLists == UNION {[1..len -> NamePool] : len \in 0..MaxNames}

NoDefinition ==
    [typename |-> <<>>, field_names |-> <<>>, rename |-> FALSE, exc |-> "", fields |-> <<>>]

\* ---------------------------------------------------------------- state
\* r       the record the caller holds
\* self    the record the caller held before the last call
\* op      the last call
\* args    the keyword arguments of a constructor call, in the caller's order
\* kwargs  the keyword arguments of the last call, as the dict the callee gets
\* key     the index or the field name of the last access
\* other   the other operand of the last comparison
\* ret     the outcome of the last call: the exception raised and the value
\* defn    the last call of the factory function and its outcome
VARIABLES r, self, op, args, kwargs, key, other, ret, defn

vars == <<r, self, op, args, kwargs, key, other, ret, defn>>

EmptyDict == [k \in {} |-> None]
NoOther == [kind |-> "tuple", items |-> <<>>]
Ok(v) == [exc |-> "", val |-> v]

\* The dict built from keyword arguments given as (name, value) pairs.
DictOf(pairs) ==
    [k \in {pairs[i][1] : i \in 1..Len(pairs)} |->
        pairs[CHOOSE i \in 1..Len(pairs) : pairs[i][1] = k][2]]

\* The keyword-argument lists a caller writes: at most MaxArgs distinct names.
ArgLists ==
    UNION {UNION {{[i \in 1..Len(o) |-> <<o[i], kw[o[i]]>>] : o \in Orders(S)} :
                   kw \in [S -> Values]} :
           S \in {T \in SUBSET Names : Cardinality(T) <= MaxArgs}}

KwDicts ==
    UNION {[S -> Values] : S \in {T \in SUBSET Names : Cardinality(T) <= MaxArgs}}

\* Plain tuples (or namedtuples) of the schema's length.
DenseTuples == [1.._nfields -> Values]

\* Other records of the same class: built from at most MaxArgs keyword
\* arguments, or rebuilt from rec's own fields in any storage order.
SparseOperands(rec) ==
    UNION {{_make(kw, o).val : o \in Orders(DOMAIN kw)} :
           kw \in {d \in KwDicts : DOMAIN d \subseteq FieldNames}}
    \cup {_replace(rec, EmptyDict, o).val : o \in Orders(FieldNames)}

Indexes == (0 - _nfields - 2)..(_nfields + 1)

Init ==
    /\ r = _make(EmptyDict, <<>>).val
    /\ self = r
    /\ op = "idle"
    /\ args = <<>>
    /\ kwargs = EmptyDict
    /\ key = 0
    /\ other = NoOther
    /\ ret = Ok(None)
    /\ defn = NoDefinition

\* T(name=value, ...), and T(**r._asdict()).
Construct ==
    /\ op = "idle"
    /\ \E a \in ArgLists \cup {_asdict(r)} : \E order \in Orders(DOMAIN DictOf(a)) :
      LET res == _make(DictOf(a), order)
      IN /\ op' = "make"
         /\ args' = a
         /\ kwargs' = DictOf(a)
         /\ ret' = res
         /\ self' = r
         /\ r' = IF res.exc = "" THEN res.val ELSE r
         /\ key' = 0
         /\ other' = NoOther
         /\ UNCHANGED defn

\* r = r._replace(name=value, ...)
Replace ==
    /\ op = "idle"
    /\ \E kw \in KwDicts : \E order \in Orders(FieldNames \cup DOMAIN kw) :
      LET res == _replace(r, kw, order)
      IN /\ op' = "replace"
         /\ args' = <<>>
         /\ kwargs' = kw
         /\ ret' = res
         /\ self' = r
         /\ r' = IF res.exc = "" THEN res.val ELSE r
         /\ key' = 0
         /\ other' = NoOther
         /\ UNCHANGED defn

\* r[n]
GetItem ==
    /\ op = "idle"
    /\ \E n \in Indexes :
      /\ op' = "getitem"
      /\ key' = n
      /\ ret' = __getitem__(r, n)
      /\ self' = r
      /\ args' = <<>>
      /\ kwargs' = EmptyDict
      /\ other' = NoOther
      /\ UNCHANGED <<r, defn>>

\* r.name
GetAttr ==
    /\ op = "idle"
    /\ \E name \in FieldNames :
      /\ op' = "getattr"
      /\ key' = name
      /\ ret' = FieldProperty(r, name)
      /\ self' = r
      /\ args' = <<>>
      /\ kwargs' = EmptyDict
      /\ other' = NoOther
      /\ UNCHANGED <<r, defn>>

\* r == o, for a plain tuple o of the schema's length, for a record built
\* from keyword arguments, or for a rebuilt copy of r.
Eq ==
    /\ op = "idle"
    /\ \E o \in {[kind |-> "tuple", items |-> t] : t \in DenseTuples}
                \cup {[kind |-> "sparse", items |-> s] : s \in SparseOperands(r)} :
      /\ op' = "eq"
      /\ other' = o
      /\ ret' = Ok(__eq__(r, o))
      /\ self' = r
      /\ args' = <<>>
      /\ kwargs' = EmptyDict
      /\ key' = 0
      /\ UNCHANGED <<r, defn>>

\* t == r, for a namedtuple t of the schema's length: tuple's comparison.
TupleEq ==
    /\ op = "idle"
    /\ \E t \in DenseTuples :
      /\ op' = "tuple_eq"
      /\ other' = [kind |-> "tuple", items |-> t]
      /\ ret' = Ok(tuple_richcompare(t, AsTuple(r)))
      /\ self' = r
      /\ args' = <<>>
      /\ kwargs' = EmptyDict
      /\ key' = 0
      /\ UNCHANGED <<r, defn>>

\* The caller is done with the outcome of the last call.
Return ==
    /\ op # "idle"
    /\ op' = "idle"
    /\ args' = <<>>
    /\ kwargs' = EmptyDict
    /\ key' = 0
    /\ other' = NoOther
    /\ ret' = Ok(None)
    /\ self' = r
    /\ UNCHANGED <<r, defn>>

Next ==
    \/ Return
    \/ Construct
    \/ Replace
    \/ GetItem
    \/ GetAttr
    \/ Eq
    \/ TupleEq

Spec == Init /\ [][Next]_vars

\* sparsenamedtuple(typename, field_names, rename=rename)
Define ==
    /\ op = "idle"
    /\ \E t \in TypeNames : \E names \in FieldNameLists : \E rename \in BOOLEAN :
         LET res == sparsenamedtuple(t, names, rename)
         IN /\ op' = "define"
            /\ defn' = [typename |-> t, field_names |-> names, rename |-> rename,
                        exc |-> res.exc, fields |-> res.fields]
            /\ UNCHANGED <<r, self, args, kwargs, key, other, ret>>

ReturnDefine ==
    /\ op = "define"
    /\ op' = "idle"
    /\ defn' = NoDefinition
    /\ UNCHANGED <<r, self, args, kwargs, key, other, ret>>

SchemaNext ==
    \/ Define
    \/ ReturnDefine

SchemaSpec == Init /\ [][SchemaNext]_vars

\* ================================================================ properties
\* Definitions used to state the properties.

\* The position an index n denotes: n, or fieldCount + n when n is negative.
Resolved(n) == IF n >= 0 THEN n ELSE _nfields + n

\* The value the dict kw assigns to the field at position p, None when it
\* assigns none.
Assigned(kw, p) ==
    IF _fields[p + 1] \in DOMAIN kw /\ kw[_fields[p + 1]] # None
    THEN kw[_fields[p + 1]]
    ELSE None

\* The stored values and positions of a record.
StoredValues(rec) == SubSeq(rec, 1, Len(rec) - 1)
StoredPositions(rec) == Tail(rec[Len(rec)])

\* The (position, value) pairs a record stores.
Content(rec) ==
    {<<StoredPositions(rec)[i], StoredValues(rec)[i]>> : i \in 1..(Len(rec) - 1)}

\* The value a record stores for position p, None when it stores none.
StoredAt(rec, p) ==
    IF \E c \in Content(rec) : c[1] = p
    THEN (CHOOSE c \in Content(rec) : c[1] = p)[2]
    ELSE None

\* The full sequence of a record and of a comparison operand.
FullSequence(rec) == [x \in 1.._nfields |-> StoredAt(rec, x - 1)]
DenseOf(o) == IF o.kind = "sparse" THEN FullSequence(o.items) ELSE o.items

\* The compact storage the (name, value) pairs a, taken in this order, give.
RECURSIVE CompactLoop(_, _, _, _)
CompactLoop(a, i, indexes, values) ==
    IF i > Len(a)
    THEN values \o <<Tuple(indexes)>>
    ELSE IF a[i][2] = None
         THEN CompactLoop(a, i + 1, indexes, values)
         ELSE CompactLoop(a, i + 1,
                          indexes \o <<(CHOOSE x \in 1.._nfields : _fields[x] = a[i][1]) - 1>>,
                          values \o <<a[i][2]>>)

Compact(a) == CompactLoop(a, 1, <<>>, <<>>)

\* ---------------------------------------------------------------- C1
\* C1: a record built by a constructor call returns, for every index n with
\* -F <= n < F, the value the call assigned to the field at the resolved
\* position when that value is not None, and None otherwise; r[n] for such n
\* raises nothing and is the stored value of the resolved position, never
\* the positions group; r.name is r[position of name].
C1_GetInRange ==
    /\ (op = "make" /\ ret.exc = "")
          => \A n \in (0 - _nfields)..(_nfields - 1) :
                __getitem__(r, n) = Ok(Assigned(kwargs, Resolved(n)))
    /\ (op = "getitem" /\ key >= 0 - _nfields /\ key < _nfields)
          => ret = Ok(StoredAt(r, Resolved(key)))
    /\ op = "getattr"
          => /\ ret = Ok(StoredAt(r, TupleIndex(_fields, key)))
             /\ ret = __getitem__(r, TupleIndex(_fields, key))

\* A negative index returned a stored value of a record with two stored values.
C1_Witness ==
    /\ op = "getitem"
    /\ key = -1
    /\ ret.val # None
    /\ Len(r) = 3
    /\ StoredPositions(r)[1] = _nfields - 1

\* ---------------------------------------------------------------- C2
\* C2: for an index n >= F or n < -F, r[n] raises IndexError.
C2_OutOfRange ==
    (op = "getitem" /\ (key >= _nfields \/ key < 0 - _nfields))
        => ret.exc = "IndexError"

\* ---------------------------------------------------------------- C3
\* C3: a constructor call or a _replace call whose keyword arguments name a
\* field that is not in the schema raises (ValueError) and returns no record,
\* whatever the value given for that name.
C3_UnknownField ==
    (op \in {"make", "replace"} /\ ~ (DOMAIN kwargs \subseteq FieldNames))
        => ret.exc = "ValueError"

\* ---------------------------------------------------------------- C4
\* C4: r == other is true exactly when the full sequence of r matches other
\* (a plain tuple) or the full sequence of other (a record) at every
\* position; r equals its own full sequence, and equals every record that
\* stores the same fields in another order.
C4_Equals ==
    op = "eq" =>
        /\ ret.val = (\A p \in 1.._nfields : FullSequence(r)[p] = DenseOf(other)[p])
        /\ FullSequence(r) = _asnamedtuple(r)
        /\ (other.kind = "tuple" /\ other.items = _asnamedtuple(r)) => ret.val
        /\ (other.kind = "sparse" /\ Content(other.items) = Content(r)) => ret.val

\* r was compared with a record storing the same fields in another order.
C4_Witness ==
    /\ op = "eq"
    /\ other.kind = "sparse"
    /\ other.items # r
    /\ Content(other.items) = Content(r)
    /\ ret.val

\* ---------------------------------------------------------------- C5
\* C5: tuple's own comparison of the full sequence of r with r, which sees
\* the raw storage of r, is false, although r == its full sequence is true.
C5_Asymmetry ==
    (op = "tuple_eq" /\ other.items = _asnamedtuple(r))
        => /\ ret.val = FALSE
           /\ __eq__(r, other)

\* The full sequence of r was compared with an r whose raw storage has the
\* same length.
C5_Witness ==
    /\ op = "tuple_eq"
    /\ other.items = _asnamedtuple(r)
    /\ Len(r) = _nfields
    /\ ret.val = FALSE

\* ---------------------------------------------------------------- C6
\* C6: T(**r._asdict()) is a record equal to r with the same full sequence,
\* and r._asdict() lists every field in schema order, a field r does not
\* store with None.
C6_RoundTrip ==
    (op = "make" /\ args = _asdict(self))
        => /\ ret.exc = ""
           /\ __eq__(r, [kind |-> "sparse", items |-> self])
           /\ _asnamedtuple(r) = _asnamedtuple(self)
           /\ Len(args) = _nfields
           /\ \A x \in 1.._nfields :
                /\ args[x][1] = _fields[x]
                /\ \/ <<x - 1, args[x][2]>> \in Content(self)
                   \/ /\ args[x][2] = None
                      /\ \A c \in Content(self) : c[1] # x - 1

\* A record with two stored values, the later field first, was rebuilt from
\* its dictionary.
C6_Witness ==
    /\ op = "make"
    /\ args = _asdict(self)
    /\ Len(self) = 3
    /\ StoredPositions(self)[1] > StoredPositions(self)[2]
    /\ ret.exc = ""

\* ---------------------------------------------------------------- C7
\* C7: a _replace call whose keyword arguments all name schema fields returns
\* a record whose value at every position is the argument given for that
\* field (None removing the field) or, for a field not named, the value of
\* the original; the original is the same after the call.
C7_Replace ==
    [][(op' = "replace" /\ DOMAIN kwargs' \subseteq FieldNames)
         => /\ ret'.exc = ""
            /\ self' = r
            /\ \A p \in 0..(_nfields - 1) :
                 __getitem__(r', p).val =
                    IF _fields[p + 1] \in DOMAIN kwargs'
                    THEN kwargs'[_fields[p + 1]]
                    ELSE __getitem__(r, p).val]_vars

\* A _replace call removed one stored field and set another.
C7_Witness ==
    /\ op = "replace"
    /\ ret.exc = ""
    /\ \E k1, k2 \in DOMAIN kwargs :
         /\ k1 # k2
         /\ kwargs[k1] = None
         /\ kwargs[k2] # None
         /\ FieldProperty(self, k1).val # None
         /\ FieldProperty(self, k2).val # kwargs[k2]

\* ---------------------------------------------------------------- C8
\* C8 as stated: the raw storage of a constructed record is the values other
\* than None in the order the caller gave them, then one element holding
\* their positions in that order.
C8_CallerOrder ==
    (op = "make" /\ ret.exc = "") => r = Compact(args)

\* C8 as amended: the raw storage of a constructed record is the values other
\* than None in some order of the keyword arguments, then one element holding
\* their positions in that same order.
C8_SomeOrder ==
    (op = "make" /\ ret.exc = "")
        => \E o \in Orders(1..Len(args)) :
              r = Compact([i \in 1..Len(args) |-> args[o[i]]])

\* A record was built whose storage order is not the caller's order.
C8_Witness ==
    /\ op = "make"
    /\ ret.exc = ""
    /\ Len(r) = 3
    /\ r # Compact(args)

\* ---------------------------------------------------------------- C10
\* C10: every record stores as many values as positions, one for each field
\* whose value is not None; the positions are in [0, F) and distinct, and no
\* stored value is None.
C10_WellFormed ==
    LET values == StoredValues(r)
        positions == StoredPositions(r)
    IN /\ Len(r) >= 1
       /\ r[Len(r)][1] = 2
       /\ Len(values) = Len(positions)
       /\ Len(values) = Cardinality({p \in 0..(_nfields - 1) : __getitem__(r, p).val # None})
       /\ Len(values) <= _nfields
       /\ \A i \in 1..Len(positions) : positions[i] >= 0 /\ positions[i] < _nfields
       /\ \A i, j \in 1..Len(positions) : positions[i] = positions[j] => i = j
       /\ \A i \in 1..Len(values) : values[i] # None

\* A _replace call on a record with stored fields gave a record in which every
\* field is stored.
C10_Witness ==
    /\ op = "replace"
    /\ ret.exc = ""
    /\ Len(self) > 1
    /\ Len(self) < Len(r)
    /\ Len(r) = _nfields + 1

\* ---------------------------------------------------------------- C9
\* Definitions used to state C9.
ValidTypeName(t) == t # <<>> /\ AllAlnumOrUnderscore(t) /\ ~ _iskeyword(t) /\ ~ isdigit(t[1])
HasDuplicate(names) == \E i, j \in 1..Len(names) : i # j /\ names[i] = names[j]
InvalidFieldName(name) ==
    \/ name = <<>>
    \/ ~ AllAlnumOrUnderscore(name)
    \/ _iskeyword(name)
    \/ isdigit(name[1])
    \/ name[1] = "_"

\* C9: with a valid type name, the factory function without rename raises
\* ValueError for every list of field names in which two names are equal;
\* with rename it succeeds, replaces the name at index i by '_i' when it is
\* invalid or equal to an earlier name, and the resulting names are pairwise
\* distinct.
C9_Duplicates ==
    (op = "define" /\ ValidTypeName(defn.typename)) =>
        /\ (~ defn.rename /\ HasDuplicate(defn.field_names)) => defn.exc = "ValueError"
        /\ defn.rename =>
             /\ defn.exc = ""
             /\ Len(defn.fields) = Len(defn.field_names)
             /\ \A i \in 1..Len(defn.fields) :
                  defn.fields[i] =
                     IF \/ InvalidFieldName(defn.field_names[i])
                        \/ \E j \in 1..(i - 1) : defn.field_names[j] = defn.field_names[i]
                     THEN <<"_">> \o FormatD(i - 1)
                     ELSE defn.field_names[i]
             /\ ~ HasDuplicate(defn.fields)
====
